---- MODULE Spec2Model ----
(***************************************************************************)
(* Model of the Weather Bot Streamlit script geotech_casestudy_2.py.       *)
(*                                                                         *)
(* The script is re-executed from top to bottom on every user action.      *)
(* st.session_state (step, city_results, selected_city,                    *)
(* check_another_clicks) survives between executions.  A button returns    *)
(* True only in the execution its click triggered, and only widgets that   *)
(* the previous execution rendered can be clicked.  An uncaught Python     *)
(* exception aborts the execution: session_state keeps what was assigned   *)
(* before it and nothing after the raising statement is rendered.          *)
(*                                                                         *)
(* Python values: None is <<>> and a present value v is <<v>>; a dict is a *)
(* function whose DOMAIN is its set of keys; a str that the code inspects  *)
(* character by character is a sequence of one-character strings.          *)
(***************************************************************************)
EXTENDS Integers, Sequences, FiniteSets, TLC

VARIABLES step, city_results, selected_city, check_another_clicks,
          widgets, output, geoCalls, weatherCalls, last

vars == <<step, city_results, selected_city, check_another_clicks,
          widgets, output, geoCalls, weatherCalls, last>>

-----------------------------------------------------------------------------
(* Bounds of the explored inputs *)

MaxInputLen == 2
MaxResults == 2

-----------------------------------------------------------------------------
(* Python values *)

None == <<>>
Some(v) == <<v>>

(* the four values of st.session_state.step *)
AwaitingCity == 1
AwaitingSelection == 2
ShowingReport == 3
Ended == 0

-----------------------------------------------------------------------------
(* str.strip *)

Whitespace == {" ", "\t"}

RECURSIVE lstrip(_, _)
lstrip(s, chars) ==
    IF s # <<>> /\ Head(s) \in chars THEN lstrip(Tail(s), chars) ELSE s

RECURSIVE rstrip(_, _)
rstrip(s, chars) ==
    IF s # <<>> /\ s[Len(s)] \in chars
        THEN rstrip(SubSeq(s, 1, Len(s) - 1), chars)
        ELSE s

strip(s, chars) == rstrip(lstrip(s, chars), chars)

-----------------------------------------------------------------------------
(* Texts the user can type into the "City Name" field *)

InputChars == {" ", "a"}

CityInputs == UNION {[1..n -> InputChars] : n \in 0..MaxInputLen}

-----------------------------------------------------------------------------
(* Bodies the geocoding API can answer with *)

Paris == <<"P", "a", "r", "i", "s">>
France == <<"F", "r", "a", "n", "c", "e">>
Springfield == <<"S", "p", "r", "i", "n", "g", "f", "i", "e", "l", "d">>
Illinois == <<"I", "l", "l", "i", "n", "o", "i", "s">>
UnitedStates == <<"U", "n", "i", "t", "e", "d", " ", "S", "t", "a", "t", "e", "s">>

ParisEmptyAdmin ==
    [name |-> Paris, admin1 |-> <<>>, country |-> France,
     latitude |-> 48, longitude |-> 2]
SpringfieldIllinois ==
    [name |-> Springfield, admin1 |-> Illinois, country |-> UnitedStates,
     latitude |-> 39, longitude |-> -89]
NoLatitude ==
    [name |-> Paris, country |-> France, longitude |-> 2]
NoName ==
    [admin1 |-> Illinois, country |-> UnitedStates,
     latitude |-> 39, longitude |-> -89]

GeoItems == {ParisEmptyAdmin, SpringfieldIllinois, NoLatitude, NoName}

ExpectedFields == {"name", "country", "latitude", "longitude"}

WellFormed(item) == ExpectedFields \subseteq DOMAIN item

GeoBodies ==
    {[generationtime_ms |-> 1]} \cup
    {[generationtime_ms |-> 1, results |-> rs] :
        rs \in UNION {[1..n -> GeoItems] : n \in 0..MaxResults}}

GeoResponses ==
    {[kind |-> "transport_error"], [kind |-> "not_json"]} \cup
    {[kind |-> "json", data |-> d] : d \in GeoBodies}

-----------------------------------------------------------------------------
(* Bodies the weather API can answer with *)

WeatherFields == {"temperature", "windspeed", "winddirection", "time"}

FieldValue(f) ==
    CASE f = "temperature" -> 21
      [] f = "windspeed" -> 7
      [] f = "winddirection" -> 180
      [] f = "time" -> 1200
      [] OTHER -> 3

CurrentWeathers ==
    {[f \in fs \cup {"weathercode"} |-> FieldValue(f)] :
        fs \in SUBSET WeatherFields}

WeatherBodies ==
    {[generationtime_ms |-> 1]} \cup
    {[generationtime_ms |-> 1, current_weather |-> c] : c \in CurrentWeathers}

WeatherResponses ==
    {[kind |-> "transport_error"], [kind |-> "not_json"]} \cup
    {[kind |-> "json", data |-> d] : d \in WeatherBodies}

-----------------------------------------------------------------------------
(* str values *)

(* the str spelled by a sequence of characters *)
RECURSIVE Str(_)
Str(cs) == IF cs = <<>> THEN "" ELSE Head(cs) \o Str(Tail(cs))

CommaSpace == <<",", " ">>

(* f"{a}, {b}, {c}" as a sequence of characters *)
JoinCommaSpace(a, b, c) == a \o CommaSpace \o b \o CommaSpace \o c

(* dict.get(key, default) *)
Get(d, key, default) == IF key \in DOMAIN d THEN d[key] ELSE default

(* the value of current[key] where present, and nothing where absent *)
PyStr_Omit(d, key) == IF key \in DOMAIN d THEN ToString(d[key]) ELSE ""

(* str() of the value of current.get(key): the value, or None *)
PyStr(d, key) == IF key \in DOMAIN d THEN ToString(d[key]) ELSE "None"

-----------------------------------------------------------------------------
(* Helper functions *)

Raised == [raised |-> TRUE]

InvalidCity == "Invalid city name. Please try again."

(* item -> label, inside the loop of validate_city *)
location_str(item) ==
    Str(strip(JoinCommaSpace(item.name, Get(item, "admin1", <<>>), item.country),
              {",", " "}))

(* the loop of validate_city raises KeyError on the first item without a   *)
(* name or a country                                                       *)
LabelRaises(results) ==
    \E i \in 1..Len(results) : ~ ({"name", "country"} \subseteq DOMAIN results[i])

(* the options with enumerate(data["results"]) counting from 0 *)
BuildOptions_ZeroBased(results) ==
    [i \in 1..Len(results) |->
        [index |-> i - 1, label |-> location_str(results[i]), data |-> results[i]]]

BuildOptions(results) ==
    [i \in 1..Len(results) |->
        [index |-> i, label |-> location_str(results[i]), data |-> results[i]]]

(* validate_city with "len(data['results']) >= 1" as the test for a list *)
validate_city_ListOfOne(city_name, resp) ==
    IF resp.kind # "json" THEN Raised
    ELSE LET data == resp.data IN
        IF "results" \notin DOMAIN data \/ data.results = <<>>
            THEN [raised |-> FALSE, type |-> "None", result |-> None,
                  error |-> Some(InvalidCity)]
        ELSE IF Len(data.results) >= 1
            THEN IF LabelRaises(data.results) THEN Raised
                 ELSE [raised |-> FALSE, type |-> "list",
                       result |-> Some(BuildOptions(data.results)),
                       error |-> None]
        ELSE [raised |-> FALSE, type |-> "dict",
              result |-> Some(data.results[1]), error |-> None]

(* validate_city testing only "'results' not in data": an empty list      *)
(* reaches data["results"][0] and raises IndexError                        *)
validate_city_EmptyRaises(city_name, resp) ==
    IF resp.kind # "json" THEN Raised
    ELSE LET data == resp.data IN
        IF "results" \notin DOMAIN data
            THEN [raised |-> FALSE, type |-> "None", result |-> None,
                  error |-> Some(InvalidCity)]
        ELSE IF Len(data.results) > 1
            THEN IF LabelRaises(data.results) THEN Raised
                 ELSE [raised |-> FALSE, type |-> "list",
                       result |-> Some(BuildOptions(data.results)),
                       error |-> None]
        ELSE IF data.results = <<>> THEN Raised
        ELSE [raised |-> FALSE, type |-> "dict",
              result |-> Some(data.results[1]), error |-> None]

(* validate_city(city_name) when requests.get answers resp.  The value is  *)
(* Raised, or the returned pair: result is None, a list or a dict.         *)
validate_city(city_name, resp) ==
    IF resp.kind # "json" THEN Raised
    ELSE LET data == resp.data IN
        IF "results" \notin DOMAIN data \/ data.results = <<>>
            THEN [raised |-> FALSE, type |-> "None", result |-> None,
                  error |-> Some(InvalidCity)]
        ELSE IF Len(data.results) > 1
            THEN IF LabelRaises(data.results) THEN Raised
                 ELSE [raised |-> FALSE, type |-> "list",
                       result |-> Some(BuildOptions(data.results)),
                       error |-> None]
        ELSE [raised |-> FALSE, type |-> "dict",
              result |-> Some(data.results[1]), error |-> None]

WeatherUnavailable == "Weather data not available."

(* fetch_weather(city_info) when requests.get answers resp.  requested     *)
(* tells whether the request was sent before the function returned or      *)
(* raised.                                                                 *)
fetch_weather(city_info, resp) ==
    IF ~ ({"latitude", "longitude"} \subseteq DOMAIN city_info)
        THEN [raised |-> TRUE, requested |-> FALSE]
    ELSE IF resp.kind # "json"
        THEN [raised |-> TRUE, requested |-> TRUE]
    ELSE IF "current_weather" \notin DOMAIN resp.data
        THEN [raised |-> FALSE, requested |-> TRUE, weather_data |-> None,
              error |-> Some(WeatherUnavailable)]
    ELSE [raised |-> FALSE, requested |-> TRUE,
          weather_data |-> Some(resp.data), error |-> None]

(* format_weather_report(city_info, weather_data): Raised on a KeyError,   *)
(* else the report                                                         *)
format_weather_report(city_info, weather_data) ==
    IF ~ ({"name", "country"} \subseteq DOMAIN city_info) THEN Raised
    ELSE LET current == weather_data.current_weather IN
        [raised |-> FALSE,
         report |->
            "### Weather Report for "
            \o Str(JoinCommaSpace(city_info.name,
                                  Get(city_info, "admin1", <<>>),
                                  city_info.country))
            \o "\n\n"
            \o "**Temperature:** " \o PyStr(current, "temperature") \o "°C  \n"
            \o "**Windspeed:** " \o PyStr(current, "windspeed") \o " km/h  \n"
            \o "**Wind Direction:** " \o PyStr(current, "winddirection") \o "°  \n"
            \o "**Time:** " \o PyStr(current, "time")]

generate_goodbye_message ==
    "### Thank You!\n\n"
    \o "Thank you for using our weather bot. We hope you have a wonderful day ahead. Goodbye!"

(* reset_conversation() without the assignment to check_another_clicks *)
reset_conversation_KeepClicks(ss) ==
    [ss EXCEPT !.step = AwaitingCity,
               !.city_results = None,
               !.selected_city = None]

(* reset_conversation() without the assignment to city_results *)
reset_conversation_KeepResults(ss) ==
    [ss EXCEPT !.step = AwaitingCity,
               !.selected_city = None,
               !.check_another_clicks = 0]

(* the session state after reset_conversation() *)
reset_conversation(ss) ==
    [ss EXCEPT !.step = AwaitingCity,
               !.city_results = None,
               !.selected_city = None,
               !.check_another_clicks = 0]

-----------------------------------------------------------------------------
(* One execution of the script *)

(* the request validate_city sends for city_name *)
geo_url(city_name) == [name |-> city_name, count |-> 5]

(* the request fetch_weather sends for city_info *)
weather_url(city_info) ==
    [latitude |-> city_info.latitude, longitude |-> city_info.longitude,
     current_weather |-> TRUE]

NoClick == "none"
SubmitCityButton == "Submit City"
ConfirmSelectionButton == "Confirm Selection"
CheckAnotherCityButton == "Check Another City"
EndConversationButton == "End Conversation"
CityNameInput == "City Name"
SelectLocationRadio == "Select a location"

Buttons ==
    {SubmitCityButton, ConfirmSelectionButton, CheckAnotherCityButton,
     EndConversationButton}

BlankCity == "Please enter a valid city name."
ConfirmAgain ==
    "Please click 'Check Another City' again to confirm resetting the conversation."

Element(kind, text) == [kind |-> kind, text |-> text]

(* the elements an execution shows when an exception ends it *)
Exception == Element("exception", "Traceback")

(* the session state of a new session, after the initialisation block *)
InitialSession ==
    [step |-> AwaitingCity, city_results |-> None, selected_city |-> None,
     check_another_clicks |-> 0]

(* an execution that has rendered nothing yet *)
StartRun(ss) ==
    [ss |-> ss, out |-> <<>>, widgets |-> {}, geo |-> <<>>, weather |-> <<>>,
     raised |-> FALSE]

Show(r, kind, text) == [r EXCEPT !.out = Append(@, Element(kind, text))]

Raise(r) == [r EXCEPT !.out = Append(@, Exception), !.raised = TRUE]

(* Step 1 with the blank test "city_input == ''" *)
Step1Block_NoStrip(r, click, city_input, geoResp) ==
    IF r.raised \/ r.ss.step # AwaitingCity THEN r
    ELSE LET r1 == [r EXCEPT !.widgets = @ \cup {CityNameInput, SubmitCityButton}] IN
        IF click # SubmitCityButton THEN r1
        ELSE IF city_input = <<>>
            THEN Show(r1, "error", BlankCity)
        ELSE LET v == validate_city(city_input, geoResp)
                 r2 == [r1 EXCEPT !.geo = Append(@, [url |-> geo_url(city_input),
                                                     response |-> geoResp])]
             IN IF v.raised THEN Raise(r2)
                ELSE IF v.error # None THEN Show(r2, "error", v.error[1])
                ELSE IF v.type = "list"
                    THEN [r2 EXCEPT !.ss.city_results = v.result,
                                    !.ss.step = AwaitingSelection]
                ELSE [r2 EXCEPT !.ss.selected_city = v.result,
                                !.ss.step = ShowingReport]

(* Step 1 without the assignment of step for a single result *)
Step1Block_NoAdvance(r, click, city_input, geoResp) ==
    IF r.raised \/ r.ss.step # AwaitingCity THEN r
    ELSE LET r1 == [r EXCEPT !.widgets = @ \cup {CityNameInput, SubmitCityButton}] IN
        IF click # SubmitCityButton THEN r1
        ELSE IF strip(city_input, Whitespace) = <<>>
            THEN Show(r1, "error", BlankCity)
        ELSE LET v == validate_city(city_input, geoResp)
                 r2 == [r1 EXCEPT !.geo = Append(@, [url |-> geo_url(city_input),
                                                     response |-> geoResp])]
             IN IF v.raised THEN Raise(r2)
                ELSE IF v.error # None THEN Show(r2, "error", v.error[1])
                ELSE IF v.type = "list"
                    THEN [r2 EXCEPT !.ss.city_results = v.result,
                                    !.ss.step = AwaitingSelection]
                ELSE [r2 EXCEPT !.ss.selected_city = v.result]

(* Step 1 sending the geocoding request a second time when the first      *)
(* raises                                                                  *)
Step1Block_Retry(r, click, city_input, geoResp) ==
    IF r.raised \/ r.ss.step # AwaitingCity THEN r
    ELSE LET r1 == [r EXCEPT !.widgets = @ \cup {CityNameInput, SubmitCityButton}] IN
        IF click # SubmitCityButton THEN r1
        ELSE IF strip(city_input, Whitespace) = <<>>
            THEN Show(r1, "error", BlankCity)
        ELSE LET v == validate_city(city_input, geoResp)
                 r2 == [r1 EXCEPT !.geo = Append(@, [url |-> geo_url(city_input),
                                                     response |-> geoResp])]
             IN IF v.raised
                    THEN Raise([r2 EXCEPT !.geo = Append(@, [url |-> geo_url(city_input),
                                                             response |-> geoResp])])
                ELSE IF v.error # None THEN Show(r2, "error", v.error[1])
                ELSE IF v.type = "list"
                    THEN [r2 EXCEPT !.ss.city_results = v.result,
                                    !.ss.step = AwaitingSelection]
                ELSE [r2 EXCEPT !.ss.selected_city = v.result,
                                !.ss.step = ShowingReport]

(* Step 1: the block under "if st.session_state.step == 1" *)
Step1Block(r, click, city_input, geoResp) ==
    IF r.raised \/ r.ss.step # AwaitingCity THEN r
    ELSE LET r1 == [r EXCEPT !.widgets = @ \cup {CityNameInput, SubmitCityButton}] IN
        IF click # SubmitCityButton THEN r1
        ELSE IF strip(city_input, Whitespace) = <<>>
            THEN Show(r1, "error", BlankCity)
        ELSE LET v == validate_city(city_input, geoResp)
                 r2 == [r1 EXCEPT !.geo = Append(@, [url |-> geo_url(city_input),
                                                     response |-> geoResp])]
             IN IF v.raised THEN Raise(r2)
                ELSE IF v.error # None THEN Show(r2, "error", v.error[1])
                ELSE IF v.type = "list"
                    THEN [r2 EXCEPT !.ss.city_results = v.result,
                                    !.ss.step = AwaitingSelection]
                ELSE [r2 EXCEPT !.ss.selected_city = v.result,
                                !.ss.step = ShowingReport]

(* Step 2: the block under "if st.session_state.step == 2" *)
Step2Block(r, click, selected_index) ==
    IF r.raised \/ r.ss.step # AwaitingSelection THEN r
    ELSE LET options == r.ss.city_results[1]
             r1 == [r EXCEPT !.widgets = @ \cup {SelectLocationRadio,
                                                 ConfirmSelectionButton}]
         IN IF click # ConfirmSelectionButton THEN r1
            ELSE [r1 EXCEPT !.ss.selected_city = Some(options[selected_index + 1].data),
                            !.ss.step = ShowingReport]

(* the "Check Another City" branch with the confirmation threshold at one  *)
(* click                                                                   *)
CheckAnotherCityHandler_OneClick(r) ==
    LET r1 == [r EXCEPT !.ss.check_another_clicks = @ + 1] IN
    IF r1.ss.check_another_clicks < 1
        THEN Show(r1, "info", ConfirmAgain)
        ELSE [r1 EXCEPT !.ss = reset_conversation(@)]

(* the "Check Another City" branch with the confirmation threshold at      *)
(* three clicks                                                            *)
CheckAnotherCityHandler_ThreeClicks(r) ==
    LET r1 == [r EXCEPT !.ss.check_another_clicks = @ + 1] IN
    IF r1.ss.check_another_clicks < 3
        THEN Show(r1, "info", ConfirmAgain)
        ELSE [r1 EXCEPT !.ss = reset_conversation(@)]

(* the "Check Another City" branch of step 3 *)
CheckAnotherCityHandler(r) ==
    LET r1 == [r EXCEPT !.ss.check_another_clicks = @ + 1] IN
    IF r1.ss.check_another_clicks < 2
        THEN Show(r1, "info", ConfirmAgain)
        ELSE [r1 EXCEPT !.ss = reset_conversation(@)]

(* the "End Conversation" branch without the assignment to step *)
EndConversationHandler_KeepStep(r) ==
    Show(r, "markdown", generate_goodbye_message)

(* the "End Conversation" branch of step 3 *)
EndConversationHandler(r) ==
    [Show(r, "markdown", generate_goodbye_message) EXCEPT !.ss.step = Ended]

(* the two buttons of step 3 *)
Step3Buttons(r, click) ==
    LET r1 == [r EXCEPT !.widgets = @ \cup {CheckAnotherCityButton,
                                            EndConversationButton}]
    IN IF click = CheckAnotherCityButton THEN CheckAnotherCityHandler(r1)
       ELSE IF click = EndConversationButton THEN EndConversationHandler(r1)
       ELSE r1

(* Step 3 under "if st.session_state.step in (0, 3)" *)
Step3Block_AlsoEnded(r, click, weatherResp) ==
    IF r.raised \/ r.ss.step \notin {Ended, ShowingReport} THEN r
    ELSE LET city_info == r.ss.selected_city[1]
             w == fetch_weather(city_info, weatherResp)
             r1 == IF w.requested
                      THEN [r EXCEPT !.weather =
                                Append(@, [url |-> weather_url(city_info),
                                           city_info |-> city_info,
                                           response |-> weatherResp])]
                      ELSE r
         IN IF w.raised THEN Raise(r1)
            ELSE IF w.error # None
                THEN Step3Buttons(Show(r1, "error", w.error[1]), click)
            ELSE LET f == format_weather_report(city_info, w.weather_data[1]) IN
                IF f.raised THEN Raise(r1)
                ELSE Step3Buttons(Show(r1, "markdown", f.report), click)

(* Step 3 fetching the weather only in an execution that no button of     *)
(* step 3 triggered                                                        *)
Step3Block_SkipFetchOnClick(r, click, weatherResp) ==
    IF r.raised \/ r.ss.step # ShowingReport THEN r
    ELSE IF click \in {CheckAnotherCityButton, EndConversationButton}
        THEN Step3Buttons(r, click)
    ELSE LET city_info == r.ss.selected_city[1]
             w == fetch_weather(city_info, weatherResp)
             r1 == IF w.requested
                      THEN [r EXCEPT !.weather =
                                Append(@, [url |-> weather_url(city_info),
                                           city_info |-> city_info,
                                           response |-> weatherResp])]
                      ELSE r
         IN IF w.raised THEN Raise(r1)
            ELSE IF w.error # None
                THEN Step3Buttons(Show(r1, "error", w.error[1]), click)
            ELSE LET f == format_weather_report(city_info, w.weather_data[1]) IN
                IF f.raised THEN Raise(r1)
                ELSE Step3Buttons(Show(r1, "markdown", f.report), click)

(* Step 3: the block under "if st.session_state.step == 3" *)
Step3Block(r, click, weatherResp) ==
    IF r.raised \/ r.ss.step # ShowingReport THEN r
    ELSE LET city_info == r.ss.selected_city[1]
             w == fetch_weather(city_info, weatherResp)
             r1 == IF w.requested
                      THEN [r EXCEPT !.weather =
                                Append(@, [url |-> weather_url(city_info),
                                           city_info |-> city_info,
                                           response |-> weatherResp])]
                      ELSE r
         IN IF w.raised THEN Raise(r1)
            ELSE IF w.error # None
                THEN Step3Buttons(Show(r1, "error", w.error[1]), click)
            ELSE LET f == format_weather_report(city_info, w.weather_data[1]) IN
                IF f.raised THEN Raise(r1)
                ELSE Step3Buttons(Show(r1, "markdown", f.report), click)

(* the whole script, top to bottom *)
Script(ss, click, city_input, selected_index, geoResp, weatherResp) ==
    Step3Block(
        Step2Block(
            Step1Block(StartRun(ss), click, city_input, geoResp),
            click, selected_index),
        click, weatherResp)

-----------------------------------------------------------------------------
(* The session *)

session ==
    [step |-> step, city_results |-> city_results,
     selected_city |-> selected_city,
     check_another_clicks |-> check_another_clicks]

(* what the last execution was given: the button clicked, the text and the *)
(* radio index its handler read, and the session state it started from     *)
LastRun(click, city_input, selected_index, pre) ==
    [click |-> click, city_input |-> city_input,
     selected_index |-> selected_index, pre |-> pre]

(* the state an execution leaves behind *)
Finish(r, click, city_input, selected_index) ==
    /\ step' = r.ss.step
    /\ city_results' = r.ss.city_results
    /\ selected_city' = r.ss.selected_city
    /\ check_another_clicks' = r.ss.check_another_clicks
    /\ widgets' = r.widgets
    /\ output' = r.out
    /\ geoCalls' = r.geo
    /\ weatherCalls' = r.weather
    /\ last' = LastRun(click, city_input, selected_index, session)

(* the geocoding API answers only an execution that runs the submit handler *)
GeoAnswers(click) ==
    IF step = AwaitingCity /\ click = SubmitCityButton
        THEN GeoResponses
        ELSE {[kind |-> "transport_error"]}

(* the weather API answers only an execution that reaches step 3 *)
WeatherAnswers(r) ==
    IF r.ss.step = ShowingReport /\ ~ r.raised
        THEN WeatherResponses
        ELSE {[kind |-> "transport_error"]}

(* one execution of the script, triggered by click *)
Execute(click, city_input, selected_index) ==
    \E geoResp \in GeoAnswers(click) :
        LET r == Step2Block(Step1Block(StartRun(session), click, city_input, geoResp),
                            click, selected_index)
        IN \E weatherResp \in WeatherAnswers(r) :
            Finish(Step3Block(r, click, weatherResp),
                   click, city_input, selected_index)

(* the first execution of a new session *)
FirstRun ==
    Script(InitialSession, NoClick, <<>>, 0,
           [kind |-> "transport_error"], [kind |-> "transport_error"])

Init ==
    /\ step = FirstRun.ss.step
    /\ city_results = FirstRun.ss.city_results
    /\ selected_city = FirstRun.ss.selected_city
    /\ check_another_clicks = FirstRun.ss.check_another_clicks
    /\ widgets = FirstRun.widgets
    /\ output = FirstRun.out
    /\ geoCalls = FirstRun.geo
    /\ weatherCalls = FirstRun.weather
    /\ last = LastRun(NoClick, <<>>, 0, InitialSession)

(* the user types a city name and clicks "Submit City" *)
SubmitCity ==
    /\ SubmitCityButton \in widgets
    /\ \E city_input \in (IF step = AwaitingCity THEN CityInputs ELSE {<<>>}) :
        Execute(SubmitCityButton, city_input, 0)

(* the user picks a radio option and clicks "Confirm Selection" *)
ConfirmSelection ==
    /\ ConfirmSelectionButton \in widgets
    /\ \E selected_index \in
            (IF step = AwaitingSelection
                THEN 0..(Len(city_results[1]) - 1) ELSE {0}) :
        Execute(ConfirmSelectionButton, <<>>, selected_index)

(* the user clicks "Check Another City" *)
CheckAnotherCity ==
    /\ CheckAnotherCityButton \in widgets
    /\ Execute(CheckAnotherCityButton, <<>>, 0)

(* the user clicks "End Conversation" *)
EndConversation ==
    /\ EndConversationButton \in widgets
    /\ Execute(EndConversationButton, <<>>, 0)

(* the script is executed again with no button clicked *)
Rerun ==
    /\ widgets \subseteq Buttons \cup {CityNameInput, SelectLocationRadio}
    /\ Execute(NoClick, <<>>, 0)

Next ==
    \/ SubmitCity
    \/ ConfirmSelection
    \/ CheckAnotherCity
    \/ EndConversation
    \/ Rerun

Spec == Init /\ [][Next]_vars

-----------------------------------------------------------------------------
(* Properties *)

(* the last execution ran the "Check Another City" handler in step 3 *)
CheckAnotherHandled ==
    /\ last.click = CheckAnotherCityButton
    /\ last.pre.step = ShowingReport
    /\ CheckAnotherCityButton \in widgets

CompleteLocations ==
    /\ selected_city # None => WellFormed(selected_city[1])
    /\ city_results # None =>
        \A i \in 1..Len(city_results[1]) : WellFormed(city_results[1][i].data)
    /\ \A i \in 1..Len(output) : output[i] # Exception

ConfirmHandled ==
    /\ last.click = ConfirmSelectionButton
    /\ last.pre.step = AwaitingSelection

C3_StepInvariants ==
    /\ step = AwaitingSelection =>
        /\ city_results # None
        /\ Len(city_results[1]) >= 2
        /\ selected_city = None
    /\ step = ShowingReport => selected_city # None
    /\ weatherCalls # <<>> =>
        \/ selected_city # None
        \/ last.pre.selected_city # None

(* step 3 was entered from step 2 and the weather request was sent *)
C3_Witness ==
    /\ ConfirmHandled
    /\ step = ShowingReport
    /\ selected_city # None
    /\ weatherCalls # <<>>

(* the last execution ran the "Submit City" handler *)
SubmitHandled ==
    /\ last.click = SubmitCityButton
    /\ last.pre.step = AwaitingCity

(* the text submitted is empty or consists of whitespace only *)
BlankSubmitted ==
    \A i \in 1..Len(last.city_input) : last.city_input[i] \in Whitespace

(* C4: a submit of a blank or whitespace-only text in step 1 sends no      *)
(* geocoding request, shows the validation error and leaves the session    *)
(* state, step 1 included, as it was.                                      *)
C4_BlankInputRejected ==
    (SubmitHandled /\ BlankSubmitted) =>
        /\ geoCalls = <<>>
        /\ output = <<Element("error", BlankCity)>>
        /\ step = AwaitingCity
        /\ session = last.pre

(* a text of spaces only was submitted *)
C4_Witness ==
    /\ SubmitHandled
    /\ BlankSubmitted
    /\ last.city_input # <<>>
    /\ output = <<Element("error", BlankCity)>>

(* the last execution sent the geocoding request *)
Geocoded == SubmitHandled /\ geoCalls # <<>>

(* the geocoding answer of the last execution is a body with a results     *)
(* list                                                                    *)
GeoHasResults ==
    /\ Geocoded
    /\ geoCalls[1].response.kind = "json"
    /\ "results" \in DOMAIN geoCalls[1].response.data

GeoResults == geoCalls[1].response.data.results

(* C5: a submit answered with exactly one result stores that result as     *)
(* selected_city and ends in step 3; step 2 is not passed through (its     *)
(* widgets are not rendered) and city_results stays empty.                 *)
C5_SingleResultSkipsSelection ==
    (GeoHasResults /\ Len(GeoResults) = 1) =>
        /\ selected_city = Some(GeoResults[1])
        /\ step = ShowingReport
        /\ city_results = None
        /\ widgets \cap {SelectLocationRadio, ConfirmSelectionButton} = {}

(* one result came back and the report of step 3 was shown *)
C5_Witness ==
    /\ GeoHasResults
    /\ Len(GeoResults) = 1
    /\ step = ShowingReport
    /\ \E i \in 1..Len(output) : output[i].kind = "markdown"

(* every result carries the name and the country its label is made of *)
Labelled(results) ==
    \A i \in 1..Len(results) : {"name", "country"} \subseteq DOMAIN results[i]

(* C6: a submit answered with N >= 2 results, each with a name and a       *)
(* country, ends in step 2 with N candidates: candidate i has index i and  *)
(* holds result i.  The stored candidates always have the indices 1..N,    *)
(* and confirming the candidate at position k (radio index k - 1) stores   *)
(* its result as selected_city and ends in step 3.                         *)
C6_CandidatesInOrder ==
    /\ (GeoHasResults /\ Len(GeoResults) >= 2 /\ Labelled(GeoResults)) =>
        /\ step = AwaitingSelection
        /\ city_results # None
        /\ Len(city_results[1]) = Len(GeoResults)
        /\ \A i \in 1..Len(GeoResults) : city_results[1][i].data = GeoResults[i]
    /\ city_results # None =>
        \A i \in 1..Len(city_results[1]) : city_results[1][i].index = i
    /\ ConfirmHandled =>
        /\ step = ShowingReport
        /\ \E k \in 1..Len(last.pre.city_results[1]) :
            /\ k = last.selected_index + 1
            /\ last.pre.city_results[1][k].index = k
            /\ selected_city = Some(last.pre.city_results[1][k].data)

(* the second of two different candidates was confirmed *)
C6_Witness ==
    /\ ConfirmHandled
    /\ last.selected_index = 1
    /\ last.pre.city_results[1][1].data # last.pre.city_results[1][2].data
    /\ selected_city = Some(last.pre.city_results[1][2].data)

(* the non-empty ones among name, admin1 and country, joined by ", " *)
NonEmptySegments(item) ==
    SelectSeq(<<item.name, Get(item, "admin1", <<>>), item.country>>,
              LAMBDA seg : seg # <<>>)

RECURSIVE JoinSegments(_)
JoinSegments(segs) ==
    IF segs = <<>> THEN <<>>
    ELSE IF Len(segs) = 1 THEN segs[1]
    ELSE segs[1] \o CommaSpace \o JoinSegments(Tail(segs))

(* C7: the label of a candidate is its non-empty segments among name,      *)
(* admin1 and country joined by ", ": "Paris, France" for Paris with an    *)
(* empty admin1, "Springfield, Illinois, United States" for Springfield    *)
(* in Illinois.                                                            *)
C7_LabelJoinsNonEmptySegments ==
    city_results # None =>
        \A i \in 1..Len(city_results[1]) :
            LET c == city_results[1][i] IN
            WellFormed(c.data) =>
            /\ c.label = Str(JoinSegments(NonEmptySegments(c.data)))
            /\ c.data = ParisEmptyAdmin => c.label = "Paris, France"
            /\ c.data = SpringfieldIllinois =>
                c.label = "Springfield, Illinois, United States"

(* the weather request of the last execution failed: no answer, or an      *)
(* answer without current_weather                                          *)
WeatherFailed ==
    /\ weatherCalls # <<>>
    /\ \/ weatherCalls[1].response.kind # "json"
       \/ "current_weather" \notin DOMAIN weatherCalls[1].response.data

(* C8: after an execution whose weather request for a complete location    *)
(* failed, and in which neither button of step 3 was clicked, the session is in step 3 with the *)
(* selected city the request was made for, and both "Check Another City"   *)
(* and "End Conversation" are rendered for the next action.                *)
C8_FetchFailureKeepsReportStep ==
    (WeatherFailed /\ WellFormed(weatherCalls[1].city_info) /\ last.click \notin {CheckAnotherCityButton, EndConversationButton}) =>
        /\ step = ShowingReport
        /\ selected_city # None
        /\ last.pre.step = ShowingReport => selected_city = last.pre.selected_city
        /\ {CheckAnotherCityButton, EndConversationButton} \subseteq widgets

(* C9: a submit whose geocoding request gets no usable answer, or an       *)
(* answer with a result that lacks name, country, latitude or longitude,   *)
(* leaves the session state, step 1 included, as it was; no result lacking *)
(* one of these fields is ever stored in selected_city or city_results.    *)
C9_UpstreamErrorLeavesState ==
    /\ (Geocoded /\ geoCalls[1].response.kind # "json") =>
        (step = AwaitingCity /\ session = last.pre)
    /\ (GeoHasResults /\ \E i \in 1..Len(GeoResults) : ~ WellFormed(GeoResults[i])) =>
        (step = AwaitingCity /\ session = last.pre)
    /\ selected_city # None => WellFormed(selected_city[1])
    /\ city_results # None =>
        \A i \in 1..Len(city_results[1]) : WellFormed(city_results[1][i].data)

(* the geocoding answer of the last execution has no results *)
GeoNotFound ==
    /\ Geocoded
    /\ geoCalls[1].response.kind = "json"
    /\ \/ "results" \notin DOMAIN geoCalls[1].response.data
       \/ GeoResults = <<>>

(* C10: a submit answered with an empty results list, or with no results   *)
(* key, shows the not-found error and leaves step at 1, city_results       *)
(* empty, and selected_city and check_another_clicks as they were.         *)
C10_NotFoundLeavesState ==
    GeoNotFound =>
        /\ output = <<Element("error", InvalidCity)>>
        /\ step = AwaitingCity
        /\ city_results = None
        /\ selected_city = last.pre.selected_city
        /\ check_another_clicks = last.pre.check_another_clicks

(* an empty results list came back *)
C10_Witness ==
    /\ GeoHasResults
    /\ GeoResults = <<>>
    /\ output = <<Element("error", InvalidCity)>>

(* the last execution ran the "End Conversation" handler in step 3 *)
EndHandled ==
    /\ last.click = EndConversationButton
    /\ last.pre.step = ShowingReport
    /\ EndConversationButton \in widgets

C12_EndedIsTerminal ==
    last.pre.step = Ended =>
        /\ step = Ended
        /\ session = last.pre
        /\ geoCalls = <<>>
        /\ weatherCalls = <<>>

(* a button left on the page was clicked after the conversation had ended *)
C12_Witness ==
    /\ last.pre.step = Ended
    /\ last.click \in Buttons
    /\ step = Ended

(* C13: check_another_clicks is 0 in every state with step 1 or step 2,    *)
(* and in every state in which step 3 has just been entered.               *)
C13_CounterZeroOutsideReport ==
    /\ step \in {AwaitingCity, AwaitingSelection} => check_another_clicks = 0
    /\ (step = ShowingReport /\ last.pre.step # ShowingReport) =>
        check_another_clicks = 0

(* the reset brought the counter from 1 back to 0 *)
C13_Witness ==
    /\ CheckAnotherHandled
    /\ last.pre.check_another_clicks = 1
    /\ step = AwaitingCity
    /\ check_another_clicks = 0

(* C14: the city name of every geocoding request is non-empty and has no   *)
(* leading or trailing whitespace.                                         *)
C14_QueryIsTrimmed ==
    geoCalls # <<>> =>
        LET name == geoCalls[1].url.name IN
        /\ name # <<>>
        /\ name[1] \notin Whitespace
        /\ name[Len(name)] \notin Whitespace

(* the weather answer of the last execution carries current_weather, for a *)
(* location whose name and country the report header reads                 *)
ReportDue ==
    /\ weatherCalls # <<>>
    /\ weatherCalls[1].response.kind = "json"
    /\ "current_weather" \in DOMAIN weatherCalls[1].response.data
    /\ {"name", "country"} \subseteq DOMAIN weatherCalls[1].city_info

(* the text shown for a field of current_weather: its value, or the        *)
(* marker None where the field is missing                                  *)
Shown(current, field) ==
    IF field \in DOMAIN current THEN ToString(current[field]) ELSE "None"

(* C15: for every subset of temperature, windspeed, winddirection and time *)
(* missing from current_weather the report is shown, with the four fields  *)
(* in the same order and the marker None in the place of each missing one. *)
C15_MissingFieldsShowMarker ==
    ReportDue =>
        LET current == weatherCalls[1].response.data.current_weather
            city_info == weatherCalls[1].city_info
        IN /\ output # <<>>
           /\ output[1].kind = "markdown"
           /\ output[1].text =
                "### Weather Report for "
                \o Str(city_info.name) \o ", "
                \o Str(Get(city_info, "admin1", <<>>)) \o ", "
                \o Str(city_info.country) \o "\n\n"
                \o "**Temperature:** " \o Shown(current, "temperature") \o "°C  \n"
                \o "**Windspeed:** " \o Shown(current, "windspeed") \o " km/h  \n"
                \o "**Wind Direction:** " \o Shown(current, "winddirection") \o "°  \n"
                \o "**Time:** " \o Shown(current, "time")

(* a report was shown for an answer with none of the four fields *)
C15_Witness ==
    /\ ReportDue
    /\ DOMAIN weatherCalls[1].response.data.current_weather \cap WeatherFields = {}
    /\ output[1].kind = "markdown"

(* C16: an execution sends at most one geocoding request, and only when it *)
(* runs the submit handler in step 1 with a text that is not blank; an     *)
(* execution sends at most one weather request; a failed request is not    *)
(* sent again.                                                             *)
C16_OneRequestNoRetry ==
    /\ Len(geoCalls) <= 1
    /\ Len(weatherCalls) <= 1
    /\ geoCalls # <<>> => (SubmitHandled /\ ~ BlankSubmitted)
    /\ last.pre.step \in {AwaitingSelection, ShowingReport, Ended} => geoCalls = <<>>

(* a geocoding request failed and was the only one of its execution *)
C16_Witness ==
    /\ Geocoded
    /\ geoCalls[1].response.kind = "transport_error"
    /\ Len(geoCalls) = 1
    /\ output = <<Exception>>

(* the last execution ran the step 3 block: it started in step 3 or it     *)
(* entered step 3                                                          *)
ReportStepRun == last.pre.step = ShowingReport \/ step = ShowingReport

(* the location the step 3 block of the last execution read *)
ReportLocation ==
    IF last.pre.step = ShowingReport THEN last.pre.selected_city[1]
    ELSE selected_city[1]

(* C17: every execution that runs the step 3 block calls fetch_weather for *)
(* the selected city, in the execution that enters step 3 and in every     *)
(* later one that starts in step 3, whichever button triggered it: one     *)
(* request is sent for its latitude and longitude (fetch_weather raises    *)
(* before the request where the location has none), and no other           *)
(* execution sends a weather request.                                      *)
C17_FetchOnEveryReportRun ==
    /\ ReportStepRun =>
        IF {"latitude", "longitude"} \subseteq DOMAIN ReportLocation
            THEN /\ Len(weatherCalls) = 1
                 /\ weatherCalls[1].city_info = ReportLocation
                 /\ weatherCalls[1].url =
                        [latitude |-> ReportLocation.latitude,
                         longitude |-> ReportLocation.longitude,
                         current_weather |-> TRUE]
            ELSE /\ weatherCalls = <<>>
                 /\ output = <<Exception>>
    /\ weatherCalls # <<>> => ReportStepRun

(* "Check Another City" was clicked on a page whose fetch had returned,    *)
(* and the fetch of the click's execution got no answer                    *)
C17_Witness ==
    /\ last.click = CheckAnotherCityButton
    /\ last.pre.step = ShowingReport
    /\ weatherCalls # <<>>
    /\ weatherCalls[1].response.kind = "transport_error"
    /\ output = <<Exception>>

(* C18: after every execution check_another_clicks is 0 or 1, and it is 1  *)
(* only in step 3 or step 0.                                               *)
C18_CounterAtMostOne ==
    /\ check_another_clicks \in {0, 1}
    /\ check_another_clicks = 1 => step \in {ShowingReport, Ended}

(* the conversation was ended with one unconfirmed click counted *)
C18_Witness ==
    /\ check_another_clicks = 1
    /\ step = Ended

====
